---- MODULE Spec2Model ----
(***************************************************************************)
(* embedded-hal adapters of the rppal SPI bus handle (src/spi/hal.rs):     *)
(* the block-bus adapter (SpiBus<u8> and the v0.2.7 blocking traits), the  *)
(* single-slot full-duplex byte emulator (FullDuplex<u8>), and the device  *)
(* transaction executor (SimpleHalSpiDevice::transaction).                 *)
(***************************************************************************)
EXTENDS Integers, Sequences, FiniteSets, TLC

\* ------------------------------------------------------------------ bounds
MaxByte == 1        \* bytes on the wire are 0..MaxByte
MaxLen == 1         \* longest buffer a block operation gets in the handle's machine
MaxBlockLen == 2    \* longest buffer of a block call checked with its data
MaxUnread == 3      \* cap on the count of received-but-unreturned bytes
MaxOps == 3         \* longest operation list handed to transaction

Bytes == 0..MaxByte

\* the transport failures the bus primitive can report (values of super::Error)
ErrVals == {"EIO", "ETIMEDOUT"}

\* ------------------------------------------------------- values and results
\* Option<u8>
None == <<>>
Some(b) == <<b>>

\* Result / nb::Result values; val is a byte sequence (<<>> for the unit value)
Ok(v) == [tag |-> "Ok", val |-> v, err |-> "-"]
Err(e) == [tag |-> "Err", val |-> <<>>, err |-> e]
WouldBlock == [tag |-> "WouldBlock", val |-> <<>>, err |-> "-"]

BufsOfLen(n) == [1..n -> Bytes]

\* --------------------------------------------------- bus primitive (external)
\* What the wire does during one primitive call: the call fails with a
\* transport error, or completes and the slave shifts out `data`.  Each
\* primitive returns its result, the read buffer after the call and a record
\* of the call (function, bytes sent, bytes asked for, outcome, bytes got).
WireOk(d) == [ok |-> TRUE, err |-> "-", data |-> d]
WireErr(e) == [ok |-> FALSE, err |-> e, data |-> <<>>]
Wire(n) == {WireOk(d) : d \in BufsOfLen(n)} \cup {WireErr(e) : e \in ErrVals}

\* Spi::read(&self, buffer): fills the buffer from the bus, all-or-fail
Spi_read(buffer, o) ==
    [res |-> IF o.ok THEN Ok(<<>>) ELSE Err(o.err),
     read |-> IF o.ok THEN o.data ELSE buffer,
     call |-> [fn |-> "read", tx |-> <<>>, n |-> Len(buffer),
               ok |-> o.ok, rx |-> o.data]]

\* Spi::write(&self, buffer): transmits the buffer, all-or-fail
Spi_write(buffer, o) ==
    [res |-> IF o.ok THEN Ok(<<>>) ELSE Err(o.err),
     read |-> <<>>,
     call |-> [fn |-> "write", tx |-> buffer, n |-> 0,
               ok |-> o.ok, rx |-> <<>>]]

\* Spi::transfer(&self, read_buffer, write_buffer): full-duplex block transfer
Spi_transfer(read_buffer, write_buffer, o) ==
    [res |-> IF o.ok THEN Ok(<<>>) ELSE Err(o.err),
     read |-> IF o.ok THEN o.data ELSE read_buffer,
     call |-> [fn |-> "transfer", tx |-> write_buffer, n |-> Len(read_buffer),
               ok |-> o.ok, rx |-> o.data]]

\* ------------------------------------------------------- block-bus adapter
\* Every adapter call returns the handle's last_read after the call, the
\* result, the caller's buffer after the call and the primitive calls made.

\* variant: the block read also takes the buffered byte
SpiBus_read_clears(lr, words, o) ==
    LET p == Spi_read(words, o) IN
    [last_read |-> None,
     res |-> IF p.res.tag = "Err" THEN p.res ELSE Ok(<<>>),
     buf |-> p.read,
     prim |-> <<p.call>>]

\* variant: the primitive's result dropped instead of propagated
SpiBus_read_ignoresError(lr, words, o) ==
    LET p == Spi_read(words, o) IN
    [last_read |-> lr,
     res |-> Ok(<<>>),
     buf |-> p.read,
     prim |-> <<p.call>>]

\* impl SpiBus<u8> for Spi :: read
SpiBus_read(lr, words, o) ==
    LET p == Spi_read(words, o) IN
    [last_read |-> lr,
     res |-> IF p.res.tag = "Err" THEN p.res ELSE Ok(<<>>),
     buf |-> p.read,
     prim |-> <<p.call>>]

\* variant: the write done as a transfer into a scratch buffer
SpiBus_write_viaTransfer(lr, words, o) ==
    LET p == Spi_transfer([j \in 1..Len(words) |-> 0], words, o) IN
    [last_read |-> lr,
     res |-> IF p.res.tag = "Err" THEN p.res ELSE Ok(<<>>),
     buf |-> words,
     prim |-> <<p.call>>]

\* impl SpiBus<u8> for Spi :: write
SpiBus_write(lr, words, o) ==
    LET p == Spi_write(words, o) IN
    [last_read |-> lr,
     res |-> IF p.res.tag = "Err" THEN p.res ELSE Ok(<<>>),
     buf |-> words,
     prim |-> <<p.call>>]

\* variant: the first byte received kept in last_read, as attempt_write does
SpiBus_transfer_stores(lr, read, write, o) ==
    LET p == Spi_transfer(read, write, o) IN
    [last_read |-> IF p.res.tag = "Err" \/ p.read = <<>> THEN lr ELSE Some(p.read[1]),
     res |-> IF p.res.tag = "Err" THEN p.res ELSE Ok(<<>>),
     buf |-> p.read,
     prim |-> <<p.call>>]

\* impl SpiBus<u8> for Spi :: transfer
SpiBus_transfer(lr, read, write, o) ==
    LET p == Spi_transfer(read, write, o) IN
    [last_read |-> lr,
     res |-> IF p.res.tag = "Err" THEN p.res ELSE Ok(<<>>),
     buf |-> p.read,
     prim |-> <<p.call>>]

\* variant: a zeroed vector of the buffer's length sent instead of its copy
SpiBus_transfer_in_place_zeros(lr, buffer, o) ==
    LET write_buffer == [j \in 1..Len(buffer) |-> 0] IN
    SpiBus_transfer(lr, buffer, write_buffer, o)

\* variant: the copy sent back to front
SpiBus_transfer_in_place_reversed(lr, buffer, o) ==
    LET write_buffer == [j \in 1..Len(buffer) |-> buffer[Len(buffer) + 1 - j]] IN
    SpiBus_transfer(lr, buffer, write_buffer, o)

\* impl SpiBus<u8> for Spi :: transfer_in_place
SpiBus_transfer_in_place(lr, buffer, o) ==
    LET write_buffer == [j \in 1..Len(buffer) |-> buffer[j]] IN
    SpiBus_transfer(lr, buffer, write_buffer, o)

\* impl SpiBus<u8> for Spi :: flush
SpiBus_flush(lr) ==
    [last_read |-> lr, res |-> Ok(<<>>), buf |-> <<>>, prim |-> <<>>]

\* variant: the copy made before the transfer returned instead of the buffer
Legacy_transfer_returnsCopy(lr, buffer, o) ==
    LET write_buffer == buffer
        t == SpiBus_transfer(lr, buffer, write_buffer, o) IN
    [last_read |-> t.last_read,
     res |-> IF t.res.tag = "Err" THEN t.res ELSE Ok(write_buffer),
     buf |-> t.buf,
     prim |-> t.prim]

\* impl embedded_hal_0::blocking::spi::Transfer<u8> for Spi :: transfer
Legacy_transfer(lr, buffer, o) ==
    LET write_buffer == [j \in 1..Len(buffer) |-> buffer[j]]
        t == SpiBus_transfer(lr, buffer, write_buffer, o) IN
    [last_read |-> t.last_read,
     res |-> IF t.res.tag = "Err" THEN t.res ELSE Ok(t.buf),
     buf |-> t.buf,
     prim |-> t.prim]

\* impl embedded_hal_0::blocking::spi::Write<u8> for Spi :: write
Legacy_write(lr, buffer, o) == SpiBus_write(lr, buffer, o)

\* ------------------------------------------------ full-duplex byte emulator
\* variant: the buffered byte copied out instead of taken
FullDuplex_read_peek(lr) ==
    IF lr # None
    THEN [last_read |-> lr, res |-> Ok(lr), buf |-> <<>>, prim |-> <<>>]
    ELSE [last_read |-> None, res |-> WouldBlock, buf |-> <<>>, prim |-> <<>>]

\* variant: an empty buffer read as the default byte
FullDuplex_read_default(lr) ==
    IF lr # None
    THEN [last_read |-> None, res |-> Ok(lr), buf |-> <<>>, prim |-> <<>>]
    ELSE [last_read |-> None, res |-> Ok(Some(0)), buf |-> <<>>, prim |-> <<>>]

\* impl FullDuplex<u8> for Spi :: read  (attempt_read)
FullDuplex_read(lr) ==
    IF lr # None
    THEN [last_read |-> None, res |-> Ok(lr), buf |-> <<>>, prim |-> <<>>]
    ELSE [last_read |-> None, res |-> WouldBlock, buf |-> <<>>, prim |-> <<>>]

\* variant: the read buffer's initial byte stored instead of the received one
FullDuplex_write_default(lr, byte, o) ==
    LET read_buffer == <<0>>
        p == Spi_transfer(read_buffer, <<byte>>, o) IN
    IF p.res.tag = "Err"
    THEN [last_read |-> lr, res |-> p.res, buf |-> <<>>, prim |-> <<p.call>>]
    ELSE [last_read |-> Some(read_buffer[1]), res |-> Ok(<<>>), buf |-> <<>>,
          prim |-> <<p.call>>]

\* variant: a byte already buffered is kept (get_or_insert instead of assignment)
FullDuplex_write_keepFirst(lr, byte, o) ==
    LET read_buffer == <<0>>
        p == Spi_transfer(read_buffer, <<byte>>, o) IN
    IF p.res.tag = "Err"
    THEN [last_read |-> lr, res |-> p.res, buf |-> <<>>, prim |-> <<p.call>>]
    ELSE [last_read |-> IF lr # None THEN lr ELSE Some(p.read[1]),
          res |-> Ok(<<>>), buf |-> <<>>, prim |-> <<p.call>>]

\* variant: a write refused with WouldBlock while a byte is still buffered
FullDuplex_write_busy(lr, byte, o) ==
    LET read_buffer == <<0>>
        p == Spi_transfer(read_buffer, <<byte>>, o) IN
    IF lr # None
    THEN [last_read |-> lr, res |-> WouldBlock, buf |-> <<>>, prim |-> <<>>]
    ELSE IF p.res.tag = "Err"
    THEN [last_read |-> lr, res |-> p.res, buf |-> <<>>, prim |-> <<p.call>>]
    ELSE [last_read |-> Some(p.read[1]), res |-> Ok(<<>>), buf |-> <<>>,
          prim |-> <<p.call>>]

\* variant: the slot emptied before the transfer, so a failure loses the byte
FullDuplex_write_clearsOnError(lr, byte, o) ==
    LET read_buffer == <<0>>
        p == Spi_transfer(read_buffer, <<byte>>, o) IN
    IF p.res.tag = "Err"
    THEN [last_read |-> None, res |-> p.res, buf |-> <<>>, prim |-> <<p.call>>]
    ELSE [last_read |-> Some(p.read[1]), res |-> Ok(<<>>), buf |-> <<>>,
          prim |-> <<p.call>>]

\* impl FullDuplex<u8> for Spi :: write  (attempt_write)
FullDuplex_write(lr, byte, o) ==
    LET read_buffer == <<0>>
        p == Spi_transfer(read_buffer, <<byte>>, o) IN
    IF p.res.tag = "Err"
    THEN [last_read |-> lr, res |-> p.res, buf |-> <<>>, prim |-> <<p.call>>]
    ELSE [last_read |-> Some(p.read[1]), res |-> Ok(<<>>), buf |-> <<>>,
          prim |-> <<p.call>>]

\* variant: the legacy emulator reading a slot of its own, which no write fills
Legacy_read_ownSlot(lr) ==
    [last_read |-> lr, res |-> WouldBlock, buf |-> <<>>, prim |-> <<>>]

\* impl embedded_hal_0::spi::FullDuplex<u8> for Spi :: read
Legacy_read(lr) == FullDuplex_read(lr)

\* impl embedded_hal_0::spi::FullDuplex<u8> for Spi :: send
Legacy_send(lr, byte, o) == FullDuplex_write(lr, byte, o)

\* ------------------------------------------------------------------- state
VARIABLES
    last_read,    \* Spi::last_read, the emulator's single buffered byte
    ret,          \* the last call on the handle: operation, result, and the
                  \* shape (function, lengths) of the primitive calls it made
    emu,          \* history: the last three emulator calls, oldest first
    written,      \* history: some attempt_write has been called
    fresh,        \* history: an attempt_write succeeded after the last attempt_read
    unread,       \* history: successful attempt_writes minus successful attempt_reads
    pc,           \* the transaction caller: "idle", "call" or "done"
    operations,   \* the operation list handed to transaction
    bus,          \* how the bus behaves during the transaction
    txn,          \* what the transaction did: result, calls, buffers
    blk,          \* one block call with its data: operation, the caller's
                  \* buffers before, the wire's outcome, and after the call
                  \* the result, the buffer and the primitive calls made
    wgen          \* history: the interface generation of the last emulator
                  \* write that succeeded ("none" before the first)

vars ==
    <<last_read, ret, emu, written, fresh, unread, pc, operations, bus, txn,
      blk, wgen>>
txVars == <<pc, operations, bus, txn>>

NoTxn == [res |-> Ok(<<>>), calls |-> <<>>, ops |-> <<>>]

\* a block call before it is made
BlockCall(op, buffer, write, o) ==
    [op |-> op, buffer |-> buffer, write |-> write, wire |-> o,
     res |-> Ok(<<>>), buf |-> buffer, prim |-> <<>>]
NoBlk == BlockCall("none", <<>>, <<>>, WireOk(<<>>))

\* the shape of a primitive call: function and lengths, without the data
Shape(c) == [fn |-> c.fn, tx |-> Len(c.tx), n |-> c.n]
Shapes(prim) == [i \in 1..Len(prim) |-> Shape(prim[i])]

\* An emulator call as remembered in emu, whichever interface generation made
\* it: the operation, the tag of its result, and the byte involved (the byte
\* returned by a successful read, the byte the primitive's transfer returned
\* to a successful write, None otherwise).
Event(op, r) ==
    [op |-> op, tag |-> r.res.tag,
     val |-> IF r.res.tag # "Ok" THEN None
             ELSE IF op = "attempt_read" THEN r.res.val
             ELSE r.prim[1].rx]

\* emu keeps the last three emulator calls
Remember(e) ==
    LET h == Append(emu, e) IN
    IF Len(h) > 3 THEN SubSeq(h, Len(h) - 2, Len(h)) ELSE h

Init ==
    /\ last_read = None
    /\ ret = [op |-> "new", res |-> Ok(<<>>), calls |-> <<>>]
    /\ emu = <<>>
    /\ written = FALSE
    /\ fresh = FALSE
    /\ unread = 0
    /\ pc = "idle"
    /\ operations = <<>>
    /\ bus = [fail |-> {}, err |-> "EIO", fill |-> 0]
    /\ txn = NoTxn
    /\ blk = NoBlk
    /\ wgen = "none"

\* a block operation: the caller sees its result; the emulator history is untouched
Block(op, r) ==
    /\ last_read' = r.last_read
    /\ ret' = [op |-> op, res |-> r.res, calls |-> Shapes(r.prim)]
    /\ UNCHANGED <<emu, written, fresh, unread, wgen, blk>>
    /\ UNCHANGED txVars

\* an emulator read through either interface generation
EmuRead(op, r) ==
    /\ last_read' = r.last_read
    /\ ret' = [op |-> op, res |-> r.res, calls |-> Shapes(r.prim)]
    /\ emu' = Remember(Event("attempt_read", r))
    /\ fresh' = FALSE
    /\ unread' = IF r.res.tag = "Ok" THEN unread - 1 ELSE unread
    /\ UNCHANGED <<written, wgen, blk>>
    /\ UNCHANGED txVars

\* an emulator write through either interface generation
EmuWrite(op, r) ==
    /\ unread < MaxUnread
    /\ last_read' = r.last_read
    /\ ret' = [op |-> op, res |-> r.res, calls |-> Shapes(r.prim)]
    /\ emu' = Remember(Event("attempt_write", r))
    /\ written' = TRUE
    /\ fresh' = IF r.res.tag = "Ok" THEN TRUE ELSE fresh
    /\ unread' = IF r.res.tag = "Ok" THEN unread + 1 ELSE unread
    /\ wgen' = IF r.res.tag # "Ok" THEN wgen
               ELSE IF op = "legacy_send" THEN "legacy" ELSE "current"
    /\ UNCHANGED blk
    /\ UNCHANGED txVars

AttemptRead == EmuRead("attempt_read", FullDuplex_read(last_read))

AttemptWrite ==
    \E byte \in Bytes, o \in Wire(1) :
        EmuWrite("attempt_write", FullDuplex_write(last_read, byte, o))

LegacyRead == EmuRead("legacy_read", Legacy_read(last_read))

LegacySend ==
    \E byte \in Bytes, o \in Wire(1) :
        EmuWrite("legacy_send", Legacy_send(last_read, byte, o))

\* The handle keeps nothing of a block operation's data, so the block
\* actions draw the buffer's length and the wire's outcome: the caller's
\* buffer is a run of one byte and so is what the slave answers.
Run(n, x) == [j \in 1..n |-> x]
Runs(n) == {Run(n, x) : x \in Bytes}
WireRun(n) == {WireOk(d) : d \in Runs(n)} \cup {WireErr(e) : e \in ErrVals}

BlockRead ==
    \E n \in 0..MaxLen : \E o \in WireRun(n) :
        Block("read", SpiBus_read(last_read, Run(n, 0), o))

BlockWrite ==
    \E n \in 0..MaxLen : \E o \in WireRun(0) :
        Block("write", SpiBus_write(last_read, Run(n, 1), o))

BlockTransfer ==
    \E n \in 0..MaxLen : \E o \in WireRun(n) :
        Block("transfer", SpiBus_transfer(last_read, Run(n, 0), Run(n, 1), o))

BlockTransferInPlace ==
    \E n \in 0..MaxLen : \E o \in WireRun(n) :
        Block("transfer_in_place", SpiBus_transfer_in_place(last_read, Run(n, 1), o))

BlockFlush == Block("flush", SpiBus_flush(last_read))

LegacyTransfer ==
    \E n \in 0..MaxLen : \E o \in WireRun(n) :
        Block("legacy_transfer", Legacy_transfer(last_read, Run(n, 1), o))

LegacyWrite ==
    \E n \in 0..MaxLen : \E o \in WireRun(0) :
        Block("legacy_write", Legacy_write(last_read, Run(n, 1), o))

Next ==
    \/ AttemptRead
    \/ AttemptWrite
    \/ LegacyRead
    \/ LegacySend
    \/ BlockRead
    \/ BlockWrite
    \/ BlockTransfer
    \/ BlockTransferInPlace
    \/ BlockFlush
    \/ LegacyTransfer
    \/ LegacyWrite

Spec == Init /\ [][Next]_vars

\* ------------------------------------------- device transaction executor
\* embedded_hal::spi::Operation
Read(words) == [kind |-> "Read", words |-> words, write |-> <<>>, us |-> 0]
Write(write) == [kind |-> "Write", words |-> <<>>, write |-> write, us |-> 0]
Transfer(read, write) == [kind |-> "Transfer", words |-> read, write |-> write, us |-> 0]
TransferInPlace(words) == [kind |-> "TransferInPlace", words |-> words, write |-> <<>>, us |-> 0]
DelayUs(us) == [kind |-> "DelayUs", words |-> <<>>, write |-> <<>>, us |-> us]

BusKinds == {"Read", "Write", "Transfer", "TransferInPlace"}

\* the descriptions of the io::Error built by each map_err closure
ReadErrMsg == "SimpleHalSpiDevice read transaction error"
WriteErrMsg == "SimpleHalSpiDevice write transaction error"
TransferErrMsg == "SimpleHalSpiDevice read/write transaction error"
InPlaceErrMsg == "SimpleHalSpiDevice in-place read/write transaction error"

\* variant: the write arm built with the read arm's description
ErrorFor_pasted(kind) ==
    CASE kind = "Read" -> Err(ReadErrMsg)
      [] kind = "Write" -> Err(ReadErrMsg)
      [] kind = "Transfer" -> Err(TransferErrMsg)
      [] kind = "TransferInPlace" -> Err(InPlaceErrMsg)

\* map_err(|_| Error::Io(io::Error::new(io::ErrorKind::Other, <description>)))
ErrorFor(kind) ==
    CASE kind = "Read" -> Err(ReadErrMsg)
      [] kind = "Write" -> Err(WriteErrMsg)
      [] kind = "Transfer" -> Err(TransferErrMsg)
      [] kind = "TransferInPlace" -> Err(InPlaceErrMsg)

\* The bus during one transaction: its k-th call fails with bus.err when
\* k \in bus.fail, and otherwise completes with the slave shifting out bus.fill.
WireAt(b, k, n) ==
    IF k \in b.fail THEN WireErr(b.err) ELSE WireOk([j \in 1..n |-> b.fill])

\* variant: the in-place arm dispatched to the bus's read
BusCall_inPlaceAsRead(lr, op, o) ==
    CASE op.kind = "Read" ->
            [fn |-> "read", r |-> SpiBus_read(lr, op.words, o)]
      [] op.kind = "Write" ->
            [fn |-> "write", r |-> SpiBus_write(lr, op.write, o)]
      [] op.kind = "Transfer" ->
            [fn |-> "transfer", r |-> SpiBus_transfer(lr, op.words, op.write, o)]
      [] op.kind = "TransferInPlace" ->
            [fn |-> "read", r |-> SpiBus_read(lr, op.words, o)]

\* self.bus.<method>(..) of one match arm, on B = Spi: the method invoked
\* and what it returned
BusCall(lr, op, o) ==
    CASE op.kind = "Read" ->
            [fn |-> "read", r |-> SpiBus_read(lr, op.words, o)]
      [] op.kind = "Write" ->
            [fn |-> "write", r |-> SpiBus_write(lr, op.write, o)]
      [] op.kind = "Transfer" ->
            [fn |-> "transfer", r |-> SpiBus_transfer(lr, op.words, op.write, o)]
      [] op.kind = "TransferInPlace" ->
            [fn |-> "transfer_in_place",
             r |-> SpiBus_transfer_in_place(lr, op.words, o)]

\* variant: the delay's outcome surfaced as a failure of the transaction
txOp_delayFails(st, i, b) ==
    LET op == st.ops[i] IN
    IF op.kind = "DelayUs"
    THEN [st EXCEPT !.calls = Append(@, [op |-> i, fn |-> "delay_us", ok |-> FALSE]),
                    !.res = Err("Delay failed")]
    ELSE LET c == BusCall(st.last_read, op, WireAt(b, st.n + 1, Len(op.words)))
             failed == c.r.res.tag = "Err" IN
         [last_read |-> c.r.last_read,
          res |-> IF failed THEN ErrorFor(op.kind) ELSE st.res,
          calls |-> Append(st.calls, [op |-> i, fn |-> c.fn, ok |-> ~failed]),
          prim |-> st.prim \o c.r.prim,
          ops |-> IF op.kind = "Write" THEN st.ops
                  ELSE [st.ops EXCEPT ![i].words = c.r.buf],
          n |-> st.n + 1]

\* variant: the bus's error returned as it is, without map_err
txOp_propagates(st, i, b) ==
    LET op == st.ops[i] IN
    IF op.kind = "DelayUs"
    THEN [st EXCEPT !.calls = Append(@, [op |-> i, fn |-> "delay_us", ok |-> TRUE])]
    ELSE LET c == BusCall(st.last_read, op, WireAt(b, st.n + 1, Len(op.words)))
             failed == c.r.res.tag = "Err" IN
         [last_read |-> c.r.last_read,
          res |-> IF failed THEN c.r.res ELSE st.res,
          calls |-> Append(st.calls, [op |-> i, fn |-> c.fn, ok |-> ~failed]),
          prim |-> st.prim \o c.r.prim,
          ops |-> IF op.kind = "Write" THEN st.ops
                  ELSE [st.ops EXCEPT ![i].words = c.r.buf],
          n |-> st.n + 1]

\* One iteration of the loop body on operation i.  st carries the handle's
\* last_read, the result so far, the collaborator calls made (for which
\* operation, which method, whether it succeeded), the primitive calls made,
\* the operations with their buffers as left by the calls, and the number of
\* bus calls made.
txOp(st, i, b) ==
    LET op == st.ops[i] IN
    IF op.kind = "DelayUs"
    THEN [st EXCEPT !.calls = Append(@, [op |-> i, fn |-> "delay_us", ok |-> TRUE])]
    ELSE LET c == BusCall(st.last_read, op, WireAt(b, st.n + 1, Len(op.words)))
             failed == c.r.res.tag = "Err" IN
         [last_read |-> c.r.last_read,
          res |-> IF failed THEN ErrorFor(op.kind) ELSE st.res,
          calls |-> Append(st.calls, [op |-> i, fn |-> c.fn, ok |-> ~failed]),
          prim |-> st.prim \o c.r.prim,
          ops |-> IF op.kind = "Write" THEN st.ops
                  ELSE [st.ops EXCEPT ![i].words = c.r.buf],
          n |-> st.n + 1]

\* variant: the results of the bus calls dropped instead of propagated
Returns_never(st) == FALSE

\* the `?` after each bus call: an error leaves the loop and the function
Returns(st) == st.res.tag = "Err"

RECURSIVE txLoop(_, _, _)
txLoop(st, i, b) ==
    IF i > Len(st.ops) THEN st
    ELSE LET st1 == txOp(st, i, b) IN
         IF Returns(st1) THEN st1 ELSE txLoop(st1, i + 1, b)

\* impl SpiDevice<u8> for SimpleHalSpiDevice<B> :: transaction
transaction(lr, ops, b) ==
    txLoop([last_read |-> lr, res |-> Ok(<<>>), calls |-> <<>>, prim |-> <<>>,
            ops |-> ops, n |-> 0], 1, b)

\* the operations a caller puts in a list, and the lists
OpSet ==
    {Read(<<0>>), Write(<<1>>), Transfer(<<0>>, <<1>>), TransferInPlace(<<1>>),
     DelayUs(1)}
OpLists == UNION {[1..n -> OpSet] : n \in 0..MaxOps}
BusBehaviours == [fail : SUBSET (1..MaxOps), err : ErrVals, fill : Bytes]

InitTx ==
    /\ last_read \in {None} \cup {Some(x) : x \in Bytes}
    /\ ret = [op |-> "new", res |-> Ok(<<>>), calls |-> <<>>]
    /\ emu = <<>>
    /\ written = (last_read # None)
    /\ fresh = (last_read # None)
    /\ unread = IF last_read # None THEN 1 ELSE 0
    /\ pc = "call"
    /\ operations \in OpLists
    /\ bus \in BusBehaviours
    /\ txn = NoTxn
    /\ blk = NoBlk
    /\ wgen = IF last_read # None THEN "current" ELSE "none"

Transaction ==
    /\ pc = "call"
    /\ LET t == transaction(last_read, operations, bus) IN
        /\ txn' = [res |-> t.res, calls |-> t.calls, ops |-> t.ops]
        /\ last_read' = t.last_read
        /\ ret' = [op |-> "transaction", res |-> t.res, calls |-> Shapes(t.prim)]
    /\ pc' = "done"
    /\ UNCHANGED <<emu, written, fresh, unread, operations, bus, blk, wgen>>

NextTx == Transaction

SpecTx == InitTx /\ [][NextTx]_vars

\* ------------------------------------------- one block call, with its data
BlockBufs == UNION {BufsOfLen(n) : n \in 0..MaxBlockLen}
BlockWire == UNION {Wire(n) : n \in 0..MaxBlockLen}

\* the calls a caller can make: the operation, its buffers, and what the wire
\* does during the primitive call (a write gets no data back, flush makes no
\* primitive call)
BlockCalls ==
    {BlockCall(op, b, <<>>, o) :
        op \in {"read", "transfer_in_place", "legacy_transfer"},
        b \in BlockBufs, o \in BlockWire}
    \cup {BlockCall("transfer", b, w, o) :
        b \in BlockBufs, w \in BlockBufs, o \in BlockWire}
    \cup {BlockCall(op, b, <<>>, o) :
        op \in {"write", "legacy_write"}, b \in BlockBufs, o \in Wire(0)}
    \cup {BlockCall("flush", <<>>, <<>>, WireOk(<<>>))}

\* the wire answers as many bytes as the primitive call asks for
WellFormed(c) ==
    /\ c.wire.ok => Len(c.wire.data) = (IF c.op \in {"write", "legacy_write", "flush"}
                                        THEN 0 ELSE Len(c.buffer))
    /\ c.op = "transfer" => Len(c.write) = Len(c.buffer)

InitBlock ==
    /\ last_read \in {None} \cup {Some(x) : x \in Bytes}
    /\ ret = [op |-> "new", res |-> Ok(<<>>), calls |-> <<>>]
    /\ emu = <<>>
    /\ written = (last_read # None)
    /\ fresh = (last_read # None)
    /\ unread = IF last_read # None THEN 1 ELSE 0
    /\ wgen = IF last_read # None THEN "current" ELSE "none"
    /\ pc = "block"
    /\ operations = <<>>
    /\ bus = [fail |-> {}, err |-> "EIO", fill |-> 0]
    /\ txn = NoTxn
    /\ blk \in {c \in BlockCalls : WellFormed(c)}

\* the call is made: the caller has the result and its buffer back
Returned(r) ==
    /\ blk' = [blk EXCEPT !.res = r.res, !.buf = r.buf, !.prim = r.prim]
    /\ last_read' = r.last_read
    /\ ret' = [op |-> blk.op, res |-> r.res, calls |-> Shapes(r.prim)]
    /\ pc' = "done"
    /\ UNCHANGED <<emu, written, fresh, unread, wgen, operations, bus, txn>>

CallRead ==
    /\ pc = "block" /\ blk.op = "read"
    /\ Returned(SpiBus_read(last_read, blk.buffer, blk.wire))

CallWrite ==
    /\ pc = "block" /\ blk.op = "write"
    /\ Returned(SpiBus_write(last_read, blk.buffer, blk.wire))

CallTransfer ==
    /\ pc = "block" /\ blk.op = "transfer"
    /\ Returned(SpiBus_transfer(last_read, blk.buffer, blk.write, blk.wire))

CallTransferInPlace ==
    /\ pc = "block" /\ blk.op = "transfer_in_place"
    /\ Returned(SpiBus_transfer_in_place(last_read, blk.buffer, blk.wire))

CallFlush ==
    /\ pc = "block" /\ blk.op = "flush"
    /\ Returned(SpiBus_flush(last_read))

CallLegacyTransfer ==
    /\ pc = "block" /\ blk.op = "legacy_transfer"
    /\ Returned(Legacy_transfer(last_read, blk.buffer, blk.wire))

CallLegacyWrite ==
    /\ pc = "block" /\ blk.op = "legacy_write"
    /\ Returned(Legacy_write(last_read, blk.buffer, blk.wire))

NextBlock ==
    \/ CallRead
    \/ CallWrite
    \/ CallTransfer
    \/ CallTransferInPlace
    \/ CallFlush
    \/ CallLegacyTransfer
    \/ CallLegacyWrite

SpecBlock == InitBlock /\ [][NextBlock]_vars

\* one call of either kind: a block call on the handle, or a transaction of
\* a device wrapping it
SpecCalls == (InitBlock \/ InitTx) /\ [][NextBlock \/ NextTx]_vars

\* =================================================================== claims
\* ---- the transaction executor, under SpecTx

TxDone == pc = "done"

\* the bus call an operation's turn comes to, when every operation before it
\* made its one call
BusNo(i) == Cardinality({j \in 1..i : operations[j].kind \in BusKinds})

\* the operations of the list whose bus call the bus fails
FailingOps ==
    {i \in 1..Len(operations) :
        operations[i].kind \in BusKinds /\ BusNo(i) \in bus.fail}

FirstFailing == CHOOSE i \in FailingOps : \A j \in FailingOps : i <= j

\* the collaborator method each operation kind stands for
Expected(kind) ==
    CASE kind = "Read" -> "read"
      [] kind = "Write" -> "write"
      [] kind = "Transfer" -> "transfer"
      [] kind = "TransferInPlace" -> "transfer_in_place"
      [] kind = "DelayUs" -> "delay_us"

\* the first n collaborator calls are the first n operations, in order, each once
CallsArePrefix(n) ==
    /\ Len(txn.calls) = n
    /\ \A j \in 1..n :
        /\ txn.calls[j].op = j
        /\ txn.calls[j].fn = Expected(operations[j].kind)

\* C1: when some bus operation of the list fails, the collaborator calls made
\* are exactly the operations up to and including the first failing one, in
\* list order, each once; all before it succeeded, none after it is invoked.
C1_ShortCircuit ==
    (TxDone /\ FailingOps # {}) =>
        /\ CallsArePrefix(FirstFailing)
        /\ \A j \in 1..FirstFailing : txn.calls[j].ok = (j < FirstFailing)
        /\ \A j \in (FirstFailing + 1)..Len(operations) :
              \A k \in 1..Len(txn.calls) : txn.calls[k].op # j

\* [Write, Read, Delay] with a failing Write: only the write was invoked
C1_Witness ==
    /\ TxDone
    /\ Len(operations) = 3
    /\ operations[1].kind = "Write"
    /\ operations[2].kind = "Read"
    /\ operations[3].kind = "DelayUs"
    /\ 1 \in bus.fail
    /\ Len(txn.calls) = 1
    /\ txn.calls[1].fn = "write"
    /\ ~txn.calls[1].ok

\* C2: when every bus operation of a list of N operations succeeds, the
\* transaction returns success after exactly N collaborator calls, one per
\* operation, in list order, none skipped, repeated or reordered.
C2_AllSucceed ==
    (TxDone /\ FailingOps = {}) =>
        /\ txn.res = Ok(<<>>)
        /\ CallsArePrefix(Len(operations))
        /\ \A j \in 1..Len(txn.calls) : txn.calls[j].ok

\* a full-length list holding an in-place transfer and a delay, all succeeding
C2_Witness ==
    /\ TxDone
    /\ FailingOps = {}
    /\ Len(operations) = MaxOps
    /\ \E i, j \in 1..Len(operations) :
          operations[i].kind = "TransferInPlace" /\ operations[j].kind = "DelayUs"
    /\ Len(txn.calls) = MaxOps
    /\ txn.res.tag = "Ok"

\* the description that names each kind of bus operation
DescriptionOf(kind) ==
    CASE kind = "Read" -> ReadErrMsg
      [] kind = "Write" -> WriteErrMsg
      [] kind = "Transfer" -> TransferErrMsg
      [] kind = "TransferInPlace" -> InPlaceErrMsg

\* C3: a failing transaction returns an error whose description is the one
\* of the kind of the first failing operation, and the four kinds have four
\* pairwise distinct descriptions.
C3_ErrorNamesKind ==
    /\ TxDone => (txn.res.tag = "Err" <=> FailingOps # {})
    /\ (TxDone /\ txn.res.tag = "Err") =>
          txn.res.err = DescriptionOf(operations[FirstFailing].kind)
    /\ \A k1, k2 \in BusKinds : k1 # k2 => ErrorFor(k1).err # ErrorFor(k2).err

\* a Write that fails after a Read that succeeded: the write description
C3_Witness ==
    /\ TxDone
    /\ Len(operations) >= 2
    /\ operations[1].kind = "Read"
    /\ operations[2].kind = "Write"
    /\ bus.fail = {2}
    /\ txn.res = Err(WriteErrMsg)

\* ---- the full-duplex byte emulator, under Spec

Held == last_read # None

\* the k-th latest emulator call remembered (0 is the latest)
Ago(k) == emu[Len(emu) - k]

WroteOk(e) == e.op = "attempt_write" /\ e.tag = "Ok"
ReadOk(e) == e.op = "attempt_read" /\ e.tag = "Ok"
IsRead(e) == e.op = "attempt_read"

\* C4 as stated: the buffered byte is present iff some write step has been
\* issued whose own read step has not been consumed, each successful write
\* being owed one read.
C4_HeldIffReadOwed == Held <=> (unread > 0)

\* C4 as amended: the buffered byte is present iff an attempt_write has
\* succeeded since the most recent attempt_read (or since construction).
C4_HeldIffWrittenSinceRead == Held <=> fresh

\* two writes then one read: one read is still owed, and the buffer is empty
C4_Witness ==
    /\ Len(emu) = 3
    /\ WroteOk(Ago(2)) /\ WroteOk(Ago(1)) /\ ReadOk(Ago(0))
    /\ unread = 1
    /\ ~Held

\* C5: attempt_write(x) then attempt_read() returns the byte the primitive's
\* transfer returned for that write, whatever was buffered or returned before.
C5_ReadReturnsReceived ==
    (Len(emu) >= 2 /\ WroteOk(Ago(1)) /\ IsRead(Ago(0))) =>
        /\ Ago(0).tag = "Ok"
        /\ Ago(0).val = Ago(1).val
        /\ (ret.op \in {"attempt_read", "legacy_read"} => ret.res = Ok(Ago(1).val))

\* an earlier write received 0 (also the default), this write received 1, and
\* the read returned 1
C5_Witness ==
    /\ Len(emu) = 3
    /\ WroteOk(Ago(2)) /\ Ago(2).val = Some(0)
    /\ WroteOk(Ago(1)) /\ Ago(1).val = Some(1)
    /\ ret.op = "attempt_read" /\ ret.res = Ok(Some(1))

\* C6: while no attempt_write has been called, the buffer is empty and every
\* attempt_read signals "would block", whatever block operations were done.
C6_ReadBeforeWriteBlocks ==
    ~written =>
        /\ ~Held
        /\ \A k \in 1..Len(emu) : IsRead(emu[k]) /\ emu[k].tag = "WouldBlock"
        /\ (ret.op \in {"attempt_read", "legacy_read"} => ret.res = WouldBlock)

\* three reads on a handle never written, the last just made
C6_Witness ==
    /\ ~written
    /\ Len(emu) = 3
    /\ ret.op = "attempt_read"
    /\ ret.res = WouldBlock

\* C7: after two successful attempt_writes with no attempt_read between, the
\* next attempt_read returns the second received byte and empties the slot,
\* and the attempt_read after that signals "would block".
C7_SecondWriteWins ==
    /\ (Len(emu) = 3 /\ WroteOk(Ago(2)) /\ WroteOk(Ago(1)) /\ IsRead(Ago(0))) =>
          /\ Ago(0).tag = "Ok"
          /\ Ago(0).val = Ago(1).val
          /\ ~Held
    /\ (Len(emu) = 3 /\ WroteOk(Ago(2)) /\ ReadOk(Ago(1)) /\ IsRead(Ago(0))) =>
          /\ Ago(0).tag = "WouldBlock"
          /\ ~Held

\* the first write received 1, the second 0, and the read returned 0
C7_Witness ==
    /\ Len(emu) = 3
    /\ WroteOk(Ago(2)) /\ Ago(2).val = Some(1)
    /\ WroteOk(Ago(1)) /\ Ago(1).val = Some(0)
    /\ ReadOk(Ago(0)) /\ Ago(0).val = Some(0)
    /\ ~Held

\* a step in which attempt_write stores the received byte
Stores == unread' = unread + 1

\* C8 as stated: whenever attempt_write stores the received byte, the buffer
\* is empty at the moment of the store.
C8_StoreFindsEmpty == [][Stores => last_read = None]_vars

\* C8 as amended: attempt_write stores the received byte over whatever is
\* buffered; the buffer is empty at the store exactly when no attempt_write
\* has succeeded since the last attempt_read, and otherwise the earlier byte
\* is replaced.
C8_StoreOverwrites ==
    [][Stores =>
        /\ (last_read = None) <=> ~fresh
        /\ last_read' = emu'[Len(emu')].val
        /\ last_read' # None]_vars

\* a store over a different byte still buffered
C8_Witness ==
    /\ Len(emu) >= 2
    /\ WroteOk(Ago(1)) /\ WroteOk(Ago(0))
    /\ Ago(1).val # Ago(0).val
    /\ last_read = Ago(0).val

\* C9: attempt_read returns the buffered byte if there is one and signals
\* "would block" if not, and in both cases leaves the buffer empty, so no byte
\* is returned twice.
C9_ReadTakes ==
    [][ret'.op = "attempt_read" =>
        /\ ret'.res = IF last_read # None THEN Ok(last_read) ELSE WouldBlock
        /\ last_read' = None]_vars

\* a read that returned a byte, then a read that signalled "would block"
C9_Witness ==
    /\ Len(emu) >= 2
    /\ ReadOk(Ago(1))
    /\ IsRead(Ago(0)) /\ Ago(0).tag = "WouldBlock"
    /\ ret.op = "attempt_read"

\* C10: attempt_write never signals "would block": it made exactly one
\* one-byte transfer on the primitive and returns success or the transport
\* error.
C10_WriteNeverBlocks ==
    ret.op = "attempt_write" =>
        /\ ret.res.tag \in {"Ok", "Err"}
        /\ ret.res.tag = "Err" => ret.res.err \in ErrVals
        /\ ret.calls = <<[fn |-> "transfer", tx |-> 1, n |-> 1]>>

\* a write that succeeded while the byte of an earlier write was still buffered
C10_Witness ==
    /\ ret.op = "attempt_write"
    /\ ret.res = Ok(<<>>)
    /\ Len(emu) >= 2
    /\ WroteOk(Ago(1)) /\ WroteOk(Ago(0))

\* ---- the block-bus adapter, under SpecBlock

BlockDone(op) == pc = "done" /\ blk.op = op

\* C11: transfer_in_place(B) gives what transfer(R, W) gives with R and W
\* independent copies of B's initial contents: the same outcome, the same
\* final buffer, the same bytes transmitted.
C11_InPlaceAsTwoBuffers ==
    BlockDone("transfer_in_place") =>
        LET R == blk.buffer
            W == blk.buffer
            t == SpiBus_transfer(last_read, R, W, blk.wire) IN
        /\ blk.res = t.res
        /\ blk.buf = t.buf
        /\ blk.prim = t.prim
        /\ Len(blk.prim) = 1 /\ blk.prim[1].tx = W

\* a successful in-place transfer of a buffer of two different bytes that came
\* back changed
C11_Witness ==
    /\ BlockDone("transfer_in_place")
    /\ blk.buffer = <<0, 1>>
    /\ blk.res = Ok(<<>>)
    /\ blk.buf = <<1, 1>>

\* C12: transfer_in_place transmits at every position the byte the buffer
\* held there before the call, and a primitive that echoes what it is sent
\* leaves the buffer equal to its initial contents.
C12_InPlaceSendsInitial ==
    BlockDone("transfer_in_place") =>
        /\ Len(blk.prim) = 1
        /\ blk.prim[1].fn = "transfer"
        /\ Len(blk.prim[1].tx) = Len(blk.buffer)
        /\ \A i \in 1..Len(blk.buffer) : blk.prim[1].tx[i] = blk.buffer[i]
        /\ (blk.wire.ok /\ blk.wire.data = blk.prim[1].tx) =>
              (blk.res = Ok(<<>>) /\ blk.buf = blk.buffer)

\* the echoing primitive on a buffer of two different bytes
C12_Witness ==
    /\ BlockDone("transfer_in_place")
    /\ blk.buffer = <<1, 0>>
    /\ blk.wire.ok /\ blk.wire.data = <<1, 0>>
    /\ blk.buf = <<1, 0>>

\* C13: read(buffer) succeeds only with the whole buffer filled from the bus
\* and fails whenever the primitive fails.
C13_ReadAllOrFail ==
    BlockDone("read") =>
        /\ blk.res.tag \in {"Ok", "Err"}
        /\ blk.res.tag = "Ok" =>
              /\ blk.wire.ok
              /\ Len(blk.buf) = Len(blk.buffer)
              /\ blk.buf = blk.wire.data
              /\ Len(blk.prim) = 1 /\ blk.prim[1].n = Len(blk.buffer)
        /\ ~blk.wire.ok => blk.res = Err(blk.wire.err)

\* a read whose primitive failed, reported as that failure
C13_Witness ==
    /\ BlockDone("read")
    /\ Len(blk.buffer) = MaxBlockLen
    /\ ~blk.wire.ok
    /\ blk.res = Err(blk.wire.err)

\* C14: write(buffer), current or legacy, hands the whole buffer in order to
\* the primitive in one write call, makes no read or transfer call, leaves the
\* buffer as it was and succeeds only if the primitive's write did.
C14_WriteSendsAll ==
    (BlockDone("write") \/ BlockDone("legacy_write")) =>
        /\ Len(blk.prim) = 1
        /\ blk.prim[1].fn = "write"
        /\ blk.prim[1].tx = blk.buffer
        /\ blk.buf = blk.buffer
        /\ blk.res = IF blk.wire.ok THEN Ok(<<>>) ELSE Err(blk.wire.err)

\* a legacy write of two different bytes that succeeded
C14_Witness ==
    /\ BlockDone("legacy_write")
    /\ blk.buffer = <<0, 1>>
    /\ blk.res = Ok(<<>>)
    /\ blk.prim[1].tx = <<0, 1>>

\* C17: legacy transfer(buffer) does what transfer_in_place(buffer) does (the
\* same primitive calls, final buffer and outcome) and on success returns the
\* buffer as the transfer left it.
C17_LegacyTransferAsInPlace ==
    BlockDone("legacy_transfer") =>
        LET t == SpiBus_transfer_in_place(last_read, blk.buffer, blk.wire) IN
        /\ blk.prim = t.prim
        /\ blk.buf = t.buf
        /\ blk.res.tag = t.res.tag
        /\ blk.res.err = t.res.err
        /\ blk.res.tag = "Ok" => blk.res.val = blk.buf

\* a legacy transfer that returned a buffer different from the one handed in
C17_Witness ==
    /\ BlockDone("legacy_transfer")
    /\ blk.buffer = <<0, 1>>
    /\ blk.res = Ok(<<1, 0>>)
    /\ blk.buf = <<1, 0>>

\* ---- block operations and transactions against the buffered byte

\* C15: every block operation (read, write, transfer, transfer_in_place,
\* flush, legacy transfer, legacy write) and every transaction, whether it
\* succeeds or fails, leaves the handle's buffered byte exactly as it was.
C15_BlockAndTxnKeepByte == [][last_read' = last_read]_vars

\* a transaction that failed after a successful bus call, on a handle still
\* holding its byte
C15_Witness ==
    /\ pc = "done"
    /\ ret.op = "transaction"
    /\ ret.res.tag = "Err"
    /\ Len(ret.calls) >= 2
    /\ last_read = Some(1)

\* ---- delays and error values, under SpecTx

IsDelay(op) == op.kind = "DelayUs"
IsBusOp(op) == op.kind \in BusKinds
WithoutDelays(ops) == SelectSeq(ops, IsBusOp)

\* C16: a delay never fails a transaction: a list of delays only returns
\* success without a bus call, and any list returns what the list without its
\* delays returns.
C16_DelaysNeverFail ==
    TxDone =>
        /\ \A k \in 1..Len(txn.calls) :
              txn.calls[k].fn = "delay_us" => txn.calls[k].ok
        /\ WithoutDelays(operations) = <<>> =>
              (txn.res = Ok(<<>>) /\ ret.calls = <<>>)
        /\ txn.res = transaction(last_read, WithoutDelays(operations), bus).res

\* a delay, then a bus operation, then a write that the bus fails
C16_Witness ==
    /\ TxDone
    /\ Len(operations) = 3
    /\ IsDelay(operations[1])
    /\ IsBusOp(operations[2])
    /\ operations[3].kind = "Write"
    /\ txn.res = ErrorFor("Write")
    /\ Len(txn.calls) = 3

\* C20: the error of a failing transaction depends only on the kind of the
\* first failing operation: the bus's own error value never reaches the
\* caller, and the same run with another error value returns the same result.
C20_BusErrorDiscarded ==
    TxDone =>
        /\ \A e \in ErrVals :
              transaction(last_read, operations, [bus EXCEPT !.err = e]).res = txn.res
        /\ txn.res.tag = "Err" =>
              /\ txn.res.err \notin ErrVals
              /\ txn.res = ErrorFor(operations[FirstFailing].kind)

\* a transaction failed at its second bus call by a bus that times out
C20_Witness ==
    /\ TxDone
    /\ txn.res.tag = "Err"
    /\ bus.err = "ETIMEDOUT"
    /\ bus.fail = {2}
    /\ Len(txn.calls) >= 2

\* ---- the emulator's failures and its two generations, under Spec

WriteFailed(e) == e.op = "attempt_write" /\ e.tag = "Err"
ReadStep == ret'.op \in {"attempt_read", "legacy_read"}

\* C18: an attempt_write whose one-byte transfer fails returns the transport
\* error and leaves the buffered byte as it was: nothing held stays nothing
\* held, and the byte of an earlier successful write stays held and is what
\* the next attempt_read returns.
C18_FailedWriteKeepsByte ==
    [][/\ (ret'.op = "attempt_write" /\ ret'.res.tag = "Err") =>
              /\ ret'.res.err \in ErrVals
              /\ last_read' = last_read
       /\ (/\ ret'.op = "attempt_read"
           /\ Len(emu) >= 2 /\ WroteOk(Ago(1)) /\ WriteFailed(Ago(0))) =>
              ret'.res = Ok(Ago(1).val)]_vars

\* a write received 1, the next write failed, and the read returned 1
C18_Witness ==
    /\ Len(emu) = 3
    /\ WroteOk(Ago(2)) /\ Ago(2).val = Some(1)
    /\ WriteFailed(Ago(1))
    /\ ReadOk(Ago(0)) /\ Ago(0).val = Some(1)
    /\ ret.op = "attempt_read"

\* C19: the legacy and the current emulator share the one slot: a read through
\* either generation takes the slot's byte, so the byte received by the last
\* successful write of either generation is returned by the next read of
\* either generation, and a read that follows a read of either generation
\* signals "would block".
C19_GenerationsShareSlot ==
    [][ReadStep =>
        /\ ret'.res = IF last_read # None THEN Ok(last_read) ELSE WouldBlock
        /\ last_read' = None
        /\ (Len(emu) >= 1 /\ WroteOk(Ago(0))) => ret'.res = Ok(Ago(0).val)
        /\ (Len(emu) >= 1 /\ IsRead(Ago(0))) => ret'.res = WouldBlock]_vars

\* the byte 1 received by a current-generation write, returned by a legacy read
C19_Witness ==
    /\ ret.op = "legacy_read"
    /\ ret.res = Ok(Some(1))
    /\ wgen = "current"
    /\ Len(emu) >= 2 /\ WroteOk(Ago(1)) /\ ReadOk(Ago(0))
    /\ ~Held

====
